---- MODULE Spec2Model ----
(***************************************************************************)
(* A model of src/contracts/agriblock.ts: the BlindEscrow contract (its    *)
(* four props and the public methods buyCrops, sellCrops and spend) and    *)
(* the in-memory CropMarket (sellCrop, buyCrop).                           *)
(*                                                                         *)
(* Byte strings are sequences of bytes (0..255).  Cryptography is ideal:   *)
(* hashes have no collisions and no fixed points,                          *)
(* a signature names its signer and what was signed, and a                 *)
(* signature verifies under a key exactly when both match.  Public keys    *)
(* are in uncompressed form, as lines 20-22 of the source require.         *)
(***************************************************************************)
EXTENDS Integers, Sequences, FiniteSets, TLC

VARIABLES this, call, crops, cropId, mcall

vars == <<this, call, crops, cropId, mcall>>
escrowVars == <<this, call>>
marketVars == <<crops, cropId, mcall>>

(***************************************************************************)
(* Bounds of the model.                                                    *)
(***************************************************************************)
\* action codes range over (0 - ActionSlack) .. (3 + ActionSlack)
ActionSlack == 1
\* weights, prices and paid values range over -1 .. MaxNumber, and NaN
MaxNumber == 2
\* sellCrop is called while cropId < MaxCrops
MaxCrops == 2

(***************************************************************************)
(* BlindEscrow: constants, keys, hashes and signatures.                    *)
(***************************************************************************)
RELEASE_BY_SELLER == 0
RELEASE_BY_ARBITER == 1
RETURN_BY_BUYER == 2
RETURN_BY_ARBITER == 3

ValidActions == {RELEASE_BY_SELLER, RELEASE_BY_ARBITER, RETURN_BY_BUYER, RETURN_BY_ARBITER}
Actions == (0 - ActionSlack) .. (3 + ActionSlack)

\* the private keys of the test (seller, buyer, arbiter are drawn from them)
Parties == {"alice", "bob", "carol"}

\* the uncompressed public key of a private key
PubKeyOf(p) == <<"pub", p>>
PubKeys == {PubKeyOf(p) : p \in Parties}

hash160(pubKey) == <<"hash160", pubKey>>
\* a digest: the input after the marker 256, which is no byte, so a digest is a
\* sequence of integers that differs from every byte string and from every
\* other input's digest
hash256(bytes) == <<256>> \o bytes

\* toByteString('0000000000000000000000000000000000000000'): twenty zero
\* bytes, the hash160 of no party's key
ZeroHash == <<"hash160", <<"pub", "nobody">>>>

\* toByteString('001122334455aabbcc')
TestNonce == <<0, 17, 34, 51, 68, 85, 170, 187, 204>>
Nonces == {<<170>>, <<170, 1>>, TestNonce}

RECURSIVE LEBytes(_)
\* the magnitude m as little-endian bytes, without leading zero bytes
LEBytes(m) == IF m = 0 THEN <<>> ELSE <<m % 256>> \o LEBytes(m \div 256)

\* int2ByteString(n) without a size: the minimal sign-magnitude little-endian
\* encoding of n, so 0 is encoded as the empty byte string
int2ByteString(n) ==
    LET m == IF n < 0 THEN 0 - n ELSE n
        b == LEBytes(m)
    IN  IF n = 0 THEN <<>>
        ELSE IF b[Len(b)] >= 128
             THEN b \o <<IF n < 0 THEN 128 ELSE 0>>
             ELSE IF n < 0 THEN [b EXCEPT ![Len(b)] = b[Len(b)] + 128]
                  ELSE b

\* byteString2Int(reverseByteString(hash256(msg), 32n) + toByteString('00')):
\* the digest read as a non-negative integer, one integer per digest
hashInt(msg) == <<"int", hash256(msg)>>

\* bsv.crypto.ECDSA.sign(hashBuff, privateKey) as {r, s}
EcdsaSign(p, msg) == [signer |-> p, signed |-> hashInt(msg)]

\* SECP256K1.pubKey2Point of an uncompressed key
pubKey2Point(pubKey) == <<"point", pubKey>>

\* SECP256K1.verifySig(hashInt, sig, point)
verifySig(h, sig, point) ==
    /\ pubKey2Point(PubKeyOf(sig.signer)) = point
    /\ sig.signed = h

\* the spending transaction of a call, and another transaction
SpendingTx == "tx"
Txs == {SpendingTx, "otherTx"}

\* a transaction signature (findSig of the signer's response)
TxSign(p, tx) == [signer |-> p, tx |-> tx]
TxSigs == {TxSign(p, tx) : p \in Parties, tx \in Txs}

\* this.checkSig(sig, pubKey), against the spending transaction
checkSig(sig, pubKey) ==
    /\ PubKeyOf(sig.signer) = pubKey
    /\ sig.tx = SpendingTx

\* the outcomes of a method call: success, exit(false), or a failed assert
Success == "success"
InvalidAction == "exit(false)"
WrongSpender == "Wrong spender pub key"
WrongOracle == "Wrong oracle pub key"
OracleSigInvalid == "Oracle sig invalid"
SpenderSigInvalid == "Spender sig invalid"

(***************************************************************************)
(* BlindEscrow.spend                                                       *)
(***************************************************************************)
\* a bug: RETURN_BY_BUYER stamped by the arbiter instead of the buyer
LoadAddressesWrongRow(e, action) ==
    IF action = RELEASE_BY_SELLER
    THEN [valid |-> TRUE, spender |-> e.buyer, oracle |-> e.seller]
    ELSE IF action = RELEASE_BY_ARBITER
    THEN [valid |-> TRUE, spender |-> e.buyer, oracle |-> e.arbiter]
    ELSE IF action = RETURN_BY_BUYER
    THEN [valid |-> TRUE, spender |-> e.seller, oracle |-> e.arbiter]
    ELSE IF action = RETURN_BY_ARBITER
    THEN [valid |-> TRUE, spender |-> e.seller, oracle |-> e.arbiter]
    ELSE [valid |-> FALSE, spender |-> ZeroHash, oracle |-> ZeroHash]

\* "Load correct addresses": the locals spender and oracle after the if chain,
\* and whether a branch other than the last was taken
LoadAddresses(e, action) ==
    IF action = RELEASE_BY_SELLER
    THEN [valid |-> TRUE, spender |-> e.buyer, oracle |-> e.seller]
    ELSE IF action = RELEASE_BY_ARBITER
    THEN [valid |-> TRUE, spender |-> e.buyer, oracle |-> e.arbiter]
    ELSE IF action = RETURN_BY_BUYER
    THEN [valid |-> TRUE, spender |-> e.seller, oracle |-> e.buyer]
    ELSE IF action = RETURN_BY_ARBITER
    THEN [valid |-> TRUE, spender |-> e.seller, oracle |-> e.arbiter]
    ELSE [valid |-> FALSE, spender |-> ZeroHash, oracle |-> ZeroHash]

\* a bug: the action code left out of the stamped message
oracleMsgNoAction(e, action) == e.escrowNonce

\* const oracleMsg = this.escrowNonce + int2ByteString(action)
oracleMsg(e, action) == e.escrowNonce \o int2ByteString(action)

\* a bug: exit(false) returning to the caller, which goes on
exitNoOp(status, rest) == rest

\* exit(status) ends the execution of the contract: with success when status
\* is true, with failure otherwise; `rest` (the statements after it) is not run
exit(status, rest) == IF status THEN Success ELSE InvalidAction

\* a bug: the spender's signature is never checked
ChecksNoSpenderSig(e, spender, oracle, spenderSig, spenderPubKey, oracleSig, oraclePubKey, action) ==
    IF hash160(spenderPubKey) # spender THEN WrongSpender
    ELSE IF hash160(oraclePubKey) # oracle THEN WrongOracle
    ELSE IF ~verifySig(hashInt(oracleMsg(e, action)), oracleSig, pubKey2Point(oraclePubKey))
    THEN OracleSigInvalid
    ELSE Success

\* a bug: the public keys are not compared with the loaded addresses
ChecksNoIdentity(e, spender, oracle, spenderSig, spenderPubKey, oracleSig, oraclePubKey, action) ==
    IF ~verifySig(hashInt(oracleMsg(e, action)), oracleSig, pubKey2Point(oraclePubKey))
    THEN OracleSigInvalid
    ELSE IF ~checkSig(spenderSig, spenderPubKey) THEN SpenderSigInvalid
    ELSE Success

\* a bug: the stamp is verified before the oracle's public key is compared
ChecksReordered(e, spender, oracle, spenderSig, spenderPubKey, oracleSig, oraclePubKey, action) ==
    IF hash160(spenderPubKey) # spender THEN WrongSpender
    ELSE IF ~verifySig(hashInt(oracleMsg(e, action)), oracleSig, pubKey2Point(oraclePubKey))
    THEN OracleSigInvalid
    ELSE IF hash160(oraclePubKey) # oracle THEN WrongOracle
    ELSE IF ~checkSig(spenderSig, spenderPubKey) THEN SpenderSigInvalid
    ELSE Success

\* the four asserts of spend, in their order; the first that fails throws
Checks(e, spender, oracle, spenderSig, spenderPubKey, oracleSig, oraclePubKey, action) ==
    IF hash160(spenderPubKey) # spender THEN WrongSpender
    ELSE IF hash160(oraclePubKey) # oracle THEN WrongOracle
    ELSE IF ~verifySig(hashInt(oracleMsg(e, action)), oracleSig, pubKey2Point(oraclePubKey))
    THEN OracleSigInvalid
    ELSE IF ~checkSig(spenderSig, spenderPubKey) THEN SpenderSigInvalid
    ELSE Success

\* a bug: the assignment of the first branch written the wrong way round
\* (this.buyer = spender), which stores the placeholder in the prop
spendStoring(e, spenderSig, spenderPubKey, oracleSig, oraclePubKey, action) ==
    LET a == LoadAddresses(e, action)
        rest == Checks(e, a.spender, a.oracle, spenderSig, spenderPubKey,
                       oracleSig, oraclePubKey, action)
    IN  [outcome |-> IF a.valid THEN rest ELSE exit(FALSE, rest),
         this |-> IF action = RELEASE_BY_SELLER THEN [e EXCEPT !.buyer = ZeroHash] ELSE e]

\* spend: the outcome of the call and the props of the instance after it
spend(e, spenderSig, spenderPubKey, oracleSig, oraclePubKey, action) ==
    LET a == LoadAddresses(e, action)
        rest == Checks(e, a.spender, a.oracle, spenderSig, spenderPubKey,
                       oracleSig, oraclePubKey, action)
    IN  [outcome |-> IF a.valid THEN rest ELSE exit(FALSE, rest),
         this |-> e]

\* buyCrops: assert(hash256(crops) == crops, 'incorrect type')
buyCrops(e, bytes) ==
    [outcome |-> IF hash256(bytes) = bytes THEN Success ELSE "incorrect type",
     this |-> e]

\* sellCrops: assert(hash256(crops) == crops, 'incorrect price')
sellCrops(e, bytes) ==
    [outcome |-> IF hash256(bytes) = bytes THEN Success ELSE "incorrect price",
     this |-> e]

(***************************************************************************)
(* The stamps a call can present: a party's signature of                   *)
(* nonce + int2ByteString(action), as the tests produce them, for any      *)
(* nonce (this escrow's or another's) and any action code.                 *)
(***************************************************************************)
StampMsg(nonce, action) == nonce \o int2ByteString(action)
Stamp(p, nonce, action) == EcdsaSign(p, StampMsg(nonce, action))

NoCall == [method |-> "none"]

\* new BlindEscrow(seller, buyer, arbiter, escrowNonce)
Construct(seller, buyer, arbiter, escrowNonce) ==
    [seller |-> seller, buyer |-> buyer, arbiter |-> arbiter, escrowNonce |-> escrowNonce]

PubKeyHashes == {hash160(k) : k \in PubKeys}

InitEscrow ==
    /\ \E s \in PubKeyHashes, b \in PubKeyHashes, a \in PubKeyHashes, n \in Nonces :
          this = Construct(s, b, a, n)
    /\ call = NoCall

\* one call of spend (the caller holds no outcome of an earlier call), with a
\* stamp made by `signer` for (stampNonce, stampAction)
Spend ==
    /\ call = NoCall
    /\ \E spenderSig \in TxSigs, spenderPubKey \in PubKeys, oraclePubKey \in PubKeys,
       action \in Actions, signer \in Parties, stampNonce \in Nonces,
       stampAction \in Actions :
        LET oracleSig == Stamp(signer, stampNonce, stampAction)
            r == spend(this, spenderSig, spenderPubKey, oracleSig, oraclePubKey, action)
        IN  /\ this' = r.this
            /\ call' = [method |-> "spend", spenderSig |-> spenderSig,
                        spenderPubKey |-> spenderPubKey, oracleSig |-> oracleSig,
                        oraclePubKey |-> oraclePubKey, action |-> action,
                        stampNonce |-> stampNonce, stampAction |-> stampAction,
                        outcome |-> r.outcome]
            /\ UNCHANGED marketVars

BuyCrops ==
    /\ call = NoCall
    /\ \E bytes \in Nonces :
        LET r == buyCrops(this, bytes)
        IN  /\ this' = r.this
            /\ call' = [method |-> "buyCrops", crops |-> bytes, outcome |-> r.outcome]
            /\ UNCHANGED marketVars

SellCrops ==
    /\ call = NoCall
    /\ \E bytes \in Nonces :
        LET r == sellCrops(this, bytes)
        IN  /\ this' = r.this
            /\ call' = [method |-> "sellCrops", crops |-> bytes, outcome |-> r.outcome]
            /\ UNCHANGED marketVars

\* the caller has the outcome of its call; the next call can be made
Return ==
    /\ call # NoCall
    /\ call' = NoCall
    /\ UNCHANGED <<this, marketVars>>

(***************************************************************************)
(* CropMarket.  A JavaScript number is an integer or NaN (fractions and    *)
(* infinities are not drawn): every comparison with NaN is false and every *)
(* arithmetic operation on NaN gives NaN.  transferFunds, emitCropAdded    *)
(* and emitCropSold only write to the console; the amounts transferred are *)
(* kept with the call.                                                     *)
(***************************************************************************)
Num(n) == [nan |-> FALSE, v |-> n]
NaN == [nan |-> TRUE, v |-> 0]
Numbers == {Num(n) : n \in (0 - 1) .. MaxNumber} \cup {NaN}

\* a <= b, a < b, a > b on numbers
Leq(a, b) == ~a.nan /\ ~b.nan /\ a.v <= b.v
Lt(a, b) == ~a.nan /\ ~b.nan /\ a.v < b.v
Gt(a, b) == ~a.nan /\ ~b.nan /\ a.v > b.v

\* a - b, a + b, a * b on numbers
Sub(a, b) == IF a.nan \/ b.nan THEN NaN ELSE Num(a.v - b.v)
Add(a, b) == IF a.nan \/ b.nan THEN NaN ELSE Num(a.v + b.v)
Mul(a, b) == IF a.nan \/ b.nan THEN NaN ELSE Num(a.v * b.v)

\* Math.floor(totalPrice * 0.02)
Commission(totalPrice) == IF totalPrice.nan THEN NaN ELSE Num((totalPrice.v * 2) \div 100)

Names == {"Rice"}
Addresses == {"0x1234567890abcdef", "0xfedcba0987654321"}
Intermediary == "0x5B38Da6a701c568545dCfcB03FcB875f56beddC4"

\* sellCrop on the market (cs, id): the outcome and the market after the call
sellCrop(cs, id, name, weight, pricePerUnit, seller) ==
    IF Leq(weight, Num(0))
    THEN [outcome |-> "Weight must be greater than 0", crops |-> cs, cropId |-> id]
    ELSE IF Leq(pricePerUnit, Num(0))
    THEN [outcome |-> "Price per unit must be greater than 0", crops |-> cs, cropId |-> id]
    ELSE [outcome |-> Success,
          crops |-> [i \in DOMAIN cs \cup {id + 1} |->
                        IF i = id + 1
                        THEN [name |-> name, weight |-> weight,
                              pricePerUnit |-> pricePerUnit, seller |-> seller]
                        ELSE cs[i]],
          cropId |-> id + 1]

\* buyCrop on the market (cs, id): the outcome, the transfers made and the
\* market after the call
buyCrop(cs, id, buyId, weight, buyer, value) ==
    IF buyId \notin DOMAIN cs
    THEN [outcome |-> "Crop does not exist", transfers |-> <<>>, crops |-> cs, cropId |-> id]
    ELSE IF Leq(weight, Num(0))
    THEN [outcome |-> "Weight must be greater than 0", transfers |-> <<>>,
          crops |-> cs, cropId |-> id]
    ELSE IF Lt(cs[buyId].weight, weight)
    THEN [outcome |-> "Not enough Weight available", transfers |-> <<>>,
          crops |-> cs, cropId |-> id]
    ELSE LET crop == cs[buyId]
             totalPrice == Mul(crop.pricePerUnit, weight)
             commissionFee == Commission(totalPrice)
             amountToSeller == Sub(totalPrice, commissionFee)
             refund == IF Gt(value, Add(totalPrice, commissionFee))
                       THEN <<[to |-> buyer,
                               amount |-> Sub(Sub(value, totalPrice), commissionFee)]>>
                       ELSE <<>>
         IN  [outcome |-> Success,
              transfers |-> <<[to |-> crop.seller, amount |-> amountToSeller],
                              [to |-> Intermediary, amount |-> commissionFee]>> \o refund,
              crops |-> [cs EXCEPT ![buyId].weight = Sub(crop.weight, weight)],
              cropId |-> id]

\* new CropMarket()
InitMarket ==
    /\ crops = <<>>
    /\ cropId = 0
    /\ mcall = NoCall

SellCrop ==
    /\ mcall = NoCall
    /\ cropId < MaxCrops
    /\ \E name \in Names, weight \in Numbers, pricePerUnit \in Numbers, seller \in Addresses :
        LET r == sellCrop(crops, cropId, name, weight, pricePerUnit, seller)
        IN  /\ crops' = r.crops
            /\ cropId' = r.cropId
            /\ mcall' = [method |-> "sellCrop", weight |-> weight,
                         pricePerUnit |-> pricePerUnit, outcome |-> r.outcome,
                         before |-> [crops |-> crops, cropId |-> cropId]]
            /\ UNCHANGED escrowVars

BuyCrop ==
    /\ mcall = NoCall
    /\ \E buyId \in 0 .. (MaxCrops + 1), weight \in Numbers, buyer \in Addresses,
          value \in Numbers :
        LET r == buyCrop(crops, cropId, buyId, weight, buyer, value)
        IN  /\ crops' = r.crops
            /\ cropId' = r.cropId
            /\ mcall' = [method |-> "buyCrop", cropId |-> buyId, weight |-> weight,
                         outcome |-> r.outcome, transfers |-> r.transfers,
                         before |-> [crops |-> crops, cropId |-> cropId]]
            /\ UNCHANGED escrowVars

\* the caller has the outcome of its call; the next call can be made
MarketReturn ==
    /\ mcall # NoCall
    /\ mcall' = NoCall
    /\ UNCHANGED <<crops, cropId, escrowVars>>

Init == InitEscrow /\ InitMarket

Next == Spend \/ BuyCrops \/ SellCrops \/ Return

Spec == Init /\ [][Next]_vars

NextMarket == SellCrop \/ BuyCrop \/ MarketReturn

\* the market alone, beside the escrow instance of the tests
InitMarketSpec ==
    /\ this = Construct(hash160(PubKeyOf("alice")), hash160(PubKeyOf("bob")),
                        hash160(PubKeyOf("carol")), TestNonce)
    /\ call = NoCall
    /\ InitMarket

SpecMarket == InitMarketSpec /\ [][NextMarket]_vars

(***************************************************************************)
(* The claims.  They are stated with the table of the specification        *)
(* (TableSpender, TableOracle) and with what a valid signature is, not     *)
(* with the operators of spend.                                            *)
(***************************************************************************)
\* the spender identity of an action's table row: buyer, buyer, seller, seller
TableSpender(e, action) == IF action \in {0, 1} THEN e.buyer ELSE e.seller

\* the oracle identity of an action's table row: seller, arbiter, buyer, arbiter
TableOracle(e, action) ==
    IF action = 0 THEN e.seller ELSE IF action = 2 THEN e.buyer ELSE e.arbiter

IsSpend == call.method = "spend"

\* the call's oracleSig is a signature by the owner of its oraclePubKey over
\* escrowNonce || int2ByteString(action)
ValidOracleSig ==
    \E p \in Parties :
        /\ call.oraclePubKey = PubKeyOf(p)
        /\ call.oracleSig = EcdsaSign(p, this.escrowNonce \o int2ByteString(call.action))

\* the call's spenderSig is a signature by the owner of its spenderPubKey over
\* the spending transaction
ValidSpenderSig ==
    \E p \in Parties :
        /\ call.spenderPubKey = PubKeyOf(p)
        /\ call.spenderSig = TxSign(p, SpendingTx)

SpenderMatches == hash160(call.spenderPubKey) = TableSpender(this, call.action)
OracleMatches == hash160(call.oraclePubKey) = TableOracle(this, call.action)

\* C1: for each of the four actions, spend succeeds whenever the spender's and
\* the oracle's public keys hash to the identities of the action's table row,
\* the oracle signature is valid over escrowNonce || int2ByteString(action) and
\* the spender signature is a valid transaction signature.
C1_SpendSucceeds ==
    (/\ IsSpend
     /\ call.action \in ValidActions
     /\ SpenderMatches
     /\ OracleMatches
     /\ ValidOracleSig
     /\ ValidSpenderSig) => call.outcome = Success

\* a RETURN_BY_BUYER spend by the seller with the buyer's stamp, three distinct
\* parties, has succeeded
C1_Witness ==
    /\ IsSpend
    /\ call.action = RETURN_BY_BUYER
    /\ Cardinality({this.seller, this.buyer, this.arbiter}) = 3
    /\ SpenderMatches /\ OracleMatches /\ ValidOracleSig /\ ValidSpenderSig
    /\ call.outcome = Success

\* C2: spend never succeeds unless the action is one of the four, both public
\* keys hash to the identities of its table row and both signatures are valid;
\* a spend with only one valid signature is rejected.
C2_SuccessOnlyIfAll ==
    (IsSpend /\ call.outcome = Success) =>
        /\ call.action \in ValidActions
        /\ SpenderMatches
        /\ OracleMatches
        /\ ValidOracleSig
        /\ ValidSpenderSig

\* a spend with matching identities and a valid stamp, but a spender signature
\* of another transaction, has been rejected
C2_Witness ==
    /\ IsSpend
    /\ call.action \in ValidActions
    /\ SpenderMatches /\ OracleMatches /\ ValidOracleSig
    /\ ~ValidSpenderSig
    /\ call.spenderPubKey = PubKeyOf(call.spenderSig.signer)
    /\ call.outcome = SpenderSigInvalid

C4_NoReplayAcrossActions ==
    (/\ IsSpend
     /\ call.stampNonce = this.escrowNonce
     /\ call.action \in ValidActions
     /\ call.action # call.stampAction) => call.outcome # Success

\* the arbiter's stamp for RELEASE_BY_ARBITER, presented by the seller for
\* RETURN_BY_ARBITER with everything else in order, has been rejected at the
\* oracle signature
C4_Witness ==
    /\ IsSpend
    /\ call.stampNonce = this.escrowNonce
    /\ call.stampAction = RELEASE_BY_ARBITER
    /\ call.action = RETURN_BY_ARBITER
    /\ SpenderMatches /\ OracleMatches /\ ValidSpenderSig
    /\ call.oraclePubKey = PubKeyOf(call.oracleSig.signer)
    /\ call.outcome = OracleSigInvalid

\* C5: a stamp made for an escrow whose nonce differs from this escrow's never
\* makes spend succeed here, for every pair of nonces and every action.
C5_NoReplayAcrossEscrows ==
    (IsSpend /\ call.stampNonce # this.escrowNonce) => call.outcome # Success

\* the two keys of the call are the two correct keys of its action, exchanged
SwappedKeys ==
    /\ IsSpend
    /\ call.action \in ValidActions
    /\ hash160(call.spenderPubKey) = TableOracle(this, call.action)
    /\ hash160(call.oraclePubKey) = TableSpender(this, call.action)

\* C6 as stated: for every action, a spend with the two correct keys exchanged
\* is rejected at an identity-mismatch check.
C6_SwappedKeysRejected ==
    SwappedKeys => call.outcome \in {WrongSpender, WrongOracle}

\* C6 as amended: for every action whose spender and oracle identities differ,
\* a spend with the two correct keys exchanged is rejected at an
\* identity-mismatch check.
C6_SwappedDistinctKeysRejected ==
    (SwappedKeys /\ TableSpender(this, call.action) # TableOracle(this, call.action))
        => call.outcome \in {WrongSpender, WrongOracle}

\* a spend with the keys of two different parties exchanged, each signature by
\* the key presented with it, has been rejected at the spender identity
C6_Witness ==
    /\ SwappedKeys
    /\ TableSpender(this, call.action) # TableOracle(this, call.action)
    /\ ValidOracleSig /\ ValidSpenderSig
    /\ call.outcome = WrongSpender

\* C7: seller, buyer, arbiter and escrowNonce never change after construction:
\* every call of spend, buyCrops and sellCrops, passing or failing, leaves them
\* as they were.
C7_PropsNeverChange == [][this' = this]_vars

\* a RELEASE_BY_SELLER spend has succeeded
C7_Witness ==
    /\ IsSpend
    /\ call.action = RELEASE_BY_SELLER
    /\ call.outcome = Success

\* the rejection of the earliest violated condition of the call, in the order
\* action, spender identity, oracle identity, oracle signature, spender signature
FirstViolated ==
    IF call.action \notin ValidActions THEN InvalidAction
    ELSE IF ~SpenderMatches THEN WrongSpender
    ELSE IF ~OracleMatches THEN WrongOracle
    ELSE IF ~ValidOracleSig THEN OracleSigInvalid
    ELSE SpenderSigInvalid

C10_FixedWidthMessage ==
    (IsSpend /\ call.action \in ValidActions) =>
        /\ \A a \in ValidActions :
              Len(oracleMsg(this, call.action)) = Len(oracleMsg(this, a))
        /\ (call.action = RELEASE_BY_SELLER /\ this.escrowNonce = TestNonce)
              => oracleMsg(this, call.action) = TestNonce \o <<0>>

\* the crops of the market before the last call
Before == mcall.before

\* C8: in CropMarket the crop ids are 1, 2, 3, ... in the order of the
\* successful sellCrop calls, a successful buyCrop(cropId, w) reduces that
\* crop's weight by exactly w and changes no other crop, every stored weight
\* is >= 0, and a call that throws leaves crops and cropId unchanged.
C8_MarketInvariant ==
    /\ DOMAIN crops = 1 .. cropId
    /\ \A i \in DOMAIN crops : Leq(Num(0), crops[i].weight)
    /\ (mcall.method = "sellCrop" /\ mcall.outcome = Success) =>
          /\ cropId = Before.cropId + 1
          /\ crops[cropId].weight = mcall.weight
          /\ crops[cropId].pricePerUnit = mcall.pricePerUnit
          /\ \A i \in DOMAIN Before.crops : crops[i] = Before.crops[i]
    /\ (mcall.method = "buyCrop" /\ mcall.outcome = Success) =>
          /\ cropId = Before.cropId
          /\ DOMAIN crops = DOMAIN Before.crops
          /\ crops[mcall.cropId].weight = Sub(Before.crops[mcall.cropId].weight, mcall.weight)
          /\ \A i \in DOMAIN crops : i # mcall.cropId => crops[i] = Before.crops[i]
    /\ (mcall # NoCall /\ mcall.outcome # Success) =>
          /\ crops = Before.crops
          /\ cropId = Before.cropId

====
